---------------------------- MODULE Spec2Model ----------------------------
(***************************************************************************)
(* A model of the checkers engine of src/src/Checkers.ts: the board model, *)
(* the move generator, the minimax search and the game session.            *)
(*                                                                         *)
(* Boards are JavaScript arrays, passed by reference.  The model keeps a   *)
(* store h, a sequence of board contents, and a board argument is an index *)
(* into it, so that a function writing through an alias of its argument    *)
(* would be seen to change it.  Every function that allocates or writes    *)
(* returns the store with its result.                                      *)
(***************************************************************************)
EXTENDS Integers, Sequences, FiniteSets, TLC

VARIABLES board, turn, listeners, notes, last, plies, stack, steps

vars == <<board, turn, listeners, notes, last, plies, stack, steps>>

(***************************************************************************)
(* types.ts                                                                *)
(***************************************************************************)
Color == {"red", "black"}

PieceType == {"man", "king"}

\* `null` of a board cell (Piece | null).
NULL == [color |-> "none", type |-> "none"]

Piece(c, t) == [color |-> c, type |-> t]

Position(r, c) == [row |-> r, col |-> c]

CheckersMove(f, p, c) == [from |-> f, path |-> p, captures |-> c]

\* `null` of a CheckersMove | null result.
NULLMOVE == [from |-> Position(-1, -1), path |-> <<>>, captures |-> <<>>]

\* The side of the board, the literal 8 of the bounds checks and loops.
Size == 8

Rows == 0 .. (Size - 1)

InBounds(pos) == /\ pos.row >= 0
                 /\ pos.row < Size
                 /\ pos.col >= 0
                 /\ pos.col < Size

Other(c) == IF c = "red" THEN "black" ELSE "red"

(***************************************************************************)
(* The store of boards.                                                    *)
(***************************************************************************)
\* board[row][col] = value, through the reference b.
Write(h, b, pos, value) ==
    [h EXCEPT ![b] = [@ EXCEPT ![pos.row] = [@ EXCEPT ![pos.col] = value]]]

\* A mutated cloneBoard: hands back its argument instead of a copy.
cloneBoardAlias(h, b) == [h |-> h, ref |-> b]

\* Checkers.cloneBoard: a new 8x8 array, each piece copied field by field.
cloneBoard(h, b) ==
    [h   |-> Append(h, [r \in Rows |-> [c \in Rows |->
                 IF h[b][r][c] # NULL
                 THEN [color |-> h[b][r][c].color, type |-> h[b][r][c].type]
                 ELSE NULL]]),
     ref |-> Len(h) + 1]

\* Directions that let every piece go both ways.
getDirectionsBothWays(piece) ==
    << <<-1, -1>>, <<-1, 1>>, <<1, -1>>, <<1, 1>> >>

\* Checkers.getDirections
getDirections(piece) ==
    IF piece.type = "king"
    THEN << <<-1, -1>>, <<-1, 1>>, <<1, -1>>, <<1, 1>> >>
    ELSE IF piece.color = "red"
         THEN << <<-1, -1>>, <<-1, 1>> >>
         ELSE << <<1, -1>>, <<1, 1>> >>

RECURSIVE getCapturesForPiece(_, _, _, _, _)
RECURSIVE capturesLoop(_, _, _, _, _, _, _, _)

\* The loop of a chain search that leaves the mover on the square it hops
\* from.
capturesLoopOriginStays(h, b, pos, piece, moveSoFar, i, moves, foundCapture) ==
    LET directions == getDirections(piece) IN
    IF i > Len(directions)
    THEN [h |-> h, moves |-> moves, foundCapture |-> foundCapture]
    ELSE
    LET d == directions[i]
        enemyPos == Position(pos.row + d[1], pos.col + d[2])
        landingPos == Position(pos.row + 2 * d[1], pos.col + 2 * d[2])
        enemyPiece == IF InBounds(enemyPos)
                      THEN h[b][enemyPos.row][enemyPos.col]
                      ELSE NULL
        continue == \/ ~InBounds(landingPos)
                    \/ enemyPiece = NULL
                    \/ enemyPiece.color = piece.color
                    \/ h[b][landingPos.row][landingPos.col] # NULL
        newMove == CheckersMove(moveSoFar.from,
                                moveSoFar.path \o <<landingPos>>,
                                moveSoFar.captures \o <<enemyPos>>)
        Further(cl) ==
            getCapturesForPiece(
                Write(Write(cl.h, cl.ref, enemyPos, NULL),
                      cl.ref, landingPos, piece),
                cl.ref, landingPos, piece, <<newMove>>)
        Push(furtherCaptures) ==
            capturesLoop(furtherCaptures.h, b, pos, piece, moveSoFar, i + 1,
                         IF Len(furtherCaptures.moves) > 0
                         THEN moves \o furtherCaptures.moves
                         ELSE Append(moves, newMove),
                         TRUE)
    IN IF continue
       THEN capturesLoop(h, b, pos, piece, moveSoFar, i + 1, moves, foundCapture)
       ELSE Push(Further(cloneBoard(h, b)))

\* The for loop of getCapturesForPiece over directions[i..], with the moves
\* pushed so far and the foundCapture flag.  The three tests that `continue`
\* are tried in the order of the source.
capturesLoop(h, b, pos, piece, moveSoFar, i, moves, foundCapture) ==
    LET directions == getDirections(piece) IN
    IF i > Len(directions)
    THEN [h |-> h, moves |-> moves, foundCapture |-> foundCapture]
    ELSE
    LET d == directions[i]
        enemyPos == Position(pos.row + d[1], pos.col + d[2])
        landingPos == Position(pos.row + 2 * d[1], pos.col + 2 * d[2])
        enemyPiece == IF InBounds(enemyPos)
                      THEN h[b][enemyPos.row][enemyPos.col]
                      ELSE NULL
        continue == \/ ~InBounds(landingPos)
                    \/ enemyPiece = NULL
                    \/ enemyPiece.color = piece.color
                    \/ h[b][landingPos.row][landingPos.col] # NULL
        newMove == CheckersMove(moveSoFar.from,
                                moveSoFar.path \o <<landingPos>>,
                                moveSoFar.captures \o <<enemyPos>>)
        \* newBoard = cloneBoard(board), its three writes, the recursive call
        Further(cl) ==
            getCapturesForPiece(
                Write(Write(Write(cl.h, cl.ref, enemyPos, NULL),
                            cl.ref, landingPos, piece),
                      cl.ref, pos, NULL),
                cl.ref, landingPos, piece, <<newMove>>)
        \* moves.push(...furtherCaptures) or moves.push(newMove), and on
        Push(furtherCaptures) ==
            capturesLoop(furtherCaptures.h, b, pos, piece, moveSoFar, i + 1,
                         IF Len(furtherCaptures.moves) > 0
                         THEN moves \o furtherCaptures.moves
                         ELSE Append(moves, newMove),
                         TRUE)
    IN IF continue
       THEN capturesLoop(h, b, pos, piece, moveSoFar, i + 1, moves, foundCapture)
       ELSE Push(Further(cloneBoard(h, b)))

\* getCapturesForPiece looking no further than the first hop: the call made
\* for the next hop of a chain finds nothing.
getCapturesForPieceOneHop(h, b, pos, piece, currentMove) ==
    LET Return(loop) == [h |-> loop.h, moves |-> loop.moves]
    IN IF currentMove # <<>> THEN [h |-> h, moves |-> <<>>]
       ELSE Return(capturesLoop(h, b, pos, piece, CheckersMove(pos, <<>>, <<>>),
                                1, <<>>, FALSE))

\* Checkers.getCapturesForPiece; currentMove is <<>> when the argument is
\* left out and <<m>> when it is given.
getCapturesForPiece(h, b, pos, piece, currentMove) ==
    LET moveSoFar == IF currentMove # <<>>
                     THEN CheckersMove(currentMove[1].from,
                                       currentMove[1].path,
                                       currentMove[1].captures)
                     ELSE CheckersMove(pos, <<>>, <<>>)
        Return(loop) ==
            IF ~loop.foundCapture /\ Len(moveSoFar.captures) > 0
            THEN [h |-> loop.h, moves |-> <<moveSoFar>>]
            ELSE [h |-> loop.h, moves |-> loop.moves]
    IN Return(capturesLoop(h, b, pos, piece, moveSoFar, 1, <<>>, FALSE))

RECURSIVE simpleLoop(_, _, _, _, _, _)

\* The loop of a step generator that starts the path at the origin.
simpleLoopPathWithOrigin(h, b, pos, piece, i, moves) ==
    LET directions == getDirections(piece) IN
    IF i > Len(directions) THEN moves
    ELSE
    LET d == directions[i]
        target == Position(pos.row + d[1], pos.col + d[2])
    IN IF ~InBounds(target)
       THEN simpleLoop(h, b, pos, piece, i + 1, moves)
       ELSE IF h[b][target.row][target.col] = NULL
            THEN simpleLoop(h, b, pos, piece, i + 1,
                            Append(moves, CheckersMove(pos, <<pos, target>>, <<>>)))
            ELSE simpleLoop(h, b, pos, piece, i + 1, moves)

\* The for loop of getSimpleMovesForPiece over directions[i..].
simpleLoop(h, b, pos, piece, i, moves) ==
    LET directions == getDirections(piece) IN
    IF i > Len(directions) THEN moves
    ELSE
    LET d == directions[i]
        target == Position(pos.row + d[1], pos.col + d[2])
    IN IF ~InBounds(target)
       THEN simpleLoop(h, b, pos, piece, i + 1, moves)
       ELSE IF h[b][target.row][target.col] = NULL
            THEN simpleLoop(h, b, pos, piece, i + 1,
                            Append(moves, CheckersMove(pos, <<target>>, <<>>)))
            ELSE simpleLoop(h, b, pos, piece, i + 1, moves)

\* Checkers.getSimpleMovesForPiece
getSimpleMovesForPiece(h, b, pos, piece) == simpleLoop(h, b, pos, piece, 1, <<>>)

\* The nested loops `for r` / `for c` visit square k = 8 * r + c in the
\* order of k.  The first square from k on, in loop order, that holds a
\* piece of colour turnArg (the test of the loop body), or Size * Size when
\* there is none.
NextOwn(h, b, turnArg, k) ==
    LET own == {j \in k .. (Size * Size - 1) :
                   /\ h[b][j \div Size][j % Size] # NULL
                   /\ h[b][j \div Size][j % Size].color = turnArg}
    IN IF own = {} THEN Size * Size
       ELSE CHOOSE j \in own : \A i \in own : j <= i

RECURSIVE allowedLoop(_, _, _, _, _, _)

\* The two nested loops of getAllowedMovesForBoard from square k on; the
\* squares that fail the test `piece && piece.color === turn` are passed
\* over in one step.
allowedLoop(h, b, turnArg, k, allCaptures, allSimple) ==
    LET Visit(n) ==
            IF n >= Size * Size
            THEN [h |-> h, allCaptures |-> allCaptures, allSimple |-> allSimple]
            ELSE
            LET pos == Position(n \div Size, n % Size)
                piece == h[b][pos.row][pos.col]
                Collect(captures) ==
                    IF Len(captures.moves) > 0
                    THEN allowedLoop(captures.h, b, turnArg, n + 1,
                                     allCaptures \o captures.moves, allSimple)
                    ELSE allowedLoop(captures.h, b, turnArg, n + 1, allCaptures,
                                     allSimple \o
                                       getSimpleMovesForPiece(captures.h, b, pos, piece))
            IN Collect(getCapturesForPiece(h, b, pos, piece, <<>>))
    IN Visit(NextOwn(h, b, turnArg, k))

\* getAllowedMovesForBoard returning the captures and the simple moves
\* together.
getAllowedMovesForBoardMixed(h, b, turnArg) ==
    LET Return(loop) ==
            [h |-> loop.h, moves |-> loop.allCaptures \o loop.allSimple]
    IN Return(allowedLoop(h, b, turnArg, 0, <<>>, <<>>))

\* Checkers.getAllowedMovesForBoard
getAllowedMovesForBoard(h, b, turnArg) ==
    LET Return(loop) ==
            [h |-> loop.h,
             moves |-> IF Len(loop.allCaptures) > 0 THEN loop.allCaptures
                                                    ELSE loop.allSimple]
    IN Return(allowedLoop(h, b, turnArg, 0, <<>>, <<>>))

RECURSIVE removeCaptured(_, _, _, _)

\* A loop that removes no captured piece.
removeCapturedNone(h, b, captures, i) == h

\* A removal that stops after the first captured square.
removeCapturedFirstOnly(h, b, captures, i) ==
    IF i > Len(captures) THEN h ELSE Write(h, b, captures[i], NULL)

\* The loop of updateBoard over move.captures[i..].
removeCaptured(h, b, captures, i) ==
    IF i > Len(captures) THEN h
    ELSE removeCaptured(Write(h, b, captures[i], NULL), b, captures, i + 1)

\* An updateBoard that empties the starting square last, after it has put
\* the piece on the final square.
updateBoardOriginLast(h, b, move) ==
    LET Apply(cl) ==
            LET newBoard == cl.ref
                piece == cl.h[newBoard][move.from.row][move.from.col]
                finalPos == move.path[Len(move.path)]
                newPiece ==
                    IF piece.type = "man"
                    THEN IF piece.color = "red" /\ finalPos.row = 0
                         THEN [piece EXCEPT !.type = "king"]
                         ELSE IF piece.color = "black" /\ finalPos.row = Size - 1
                              THEN [piece EXCEPT !.type = "king"]
                              ELSE piece
                    ELSE piece
            IN IF piece = NULL THEN [h |-> cl.h, ref |-> newBoard]
               ELSE [h |-> Write(removeCaptured(
                                   Write(cl.h, newBoard, finalPos, newPiece),
                                   newBoard, move.captures, 1),
                                 newBoard, move.from, NULL),
                     ref |-> newBoard]
    IN Apply(cloneBoard(h, b))

\* Checkers.updateBoard
updateBoard(h, b, move) ==
    LET Apply(cl) ==
            LET newBoard == cl.ref
                piece == cl.h[newBoard][move.from.row][move.from.col]
                finalPos == move.path[Len(move.path)]
                newPiece ==
                    IF piece.type = "man"
                    THEN IF piece.color = "red" /\ finalPos.row = 0
                         THEN [piece EXCEPT !.type = "king"]
                         ELSE IF piece.color = "black" /\ finalPos.row = Size - 1
                              THEN [piece EXCEPT !.type = "king"]
                              ELSE piece
                    ELSE piece
            IN IF piece = NULL THEN [h |-> cl.h, ref |-> newBoard]
               ELSE [h |-> Write(removeCaptured(
                                   Write(cl.h, newBoard, move.from, NULL),
                                   newBoard, move.captures, 1),
                                 newBoard, finalPos, newPiece),
                     ref |-> newBoard]
    IN Apply(cloneBoard(h, b))

\* The material values of evaluateBoard.
ManValue == 10

KingValue == 50

\* The first square from k on, in loop order, that holds a piece, or
\* Size * Size when there is none.
NextPiece(h, b, k) ==
    LET full == {j \in k .. (Size * Size - 1) : h[b][j \div Size][j % Size] # NULL}
    IN IF full = {} THEN Size * Size
       ELSE CHOOSE j \in full : \A i \in full : j <= i

RECURSIVE evaluateLoop(_, _, _, _, _)

\* The loops of an evaluation that adds up the perspective's pieces and
\* passes over the others.
evaluateLoopOwnOnly(h, b, perspective, k, value) ==
    LET Visit(n) ==
            IF n >= Size * Size THEN value
            ELSE
            LET piece == h[b][n \div Size][n % Size]
                pieceVal == IF piece.type = "man" THEN ManValue ELSE KingValue
            IN IF piece.color = perspective
               THEN evaluateLoop(h, b, perspective, n + 1, value + pieceVal)
               ELSE evaluateLoop(h, b, perspective, n + 1, value)
    IN Visit(NextPiece(h, b, k))

\* The two nested loops of evaluateBoard from square k on; the empty
\* squares are passed over in one step.
evaluateLoop(h, b, perspective, k, value) ==
    LET Visit(n) ==
            IF n >= Size * Size THEN value
            ELSE
            LET piece == h[b][n \div Size][n % Size]
                pieceVal == IF piece.type = "man" THEN ManValue ELSE KingValue
            IN IF piece.color = perspective
               THEN evaluateLoop(h, b, perspective, n + 1, value + pieceVal)
               ELSE evaluateLoop(h, b, perspective, n + 1, value - pieceVal)
    IN Visit(NextPiece(h, b, k))

\* Checkers.evaluateBoard
evaluateBoard(h, b, perspective) == evaluateLoop(h, b, perspective, 0, 0)

\* A comparison that leaves the captures out.
compareMovesNoCaptures(m1, m2) ==
    /\ m1.from.row = m2.from.row /\ m1.from.col = m2.from.col
    /\ Len(m1.path) = Len(m2.path)
    /\ \A i \in 1 .. Len(m1.path) :
          m1.path[i].row = m2.path[i].row /\ m1.path[i].col = m2.path[i].col

\* Checkers.compareMoves
compareMoves(m1, m2) ==
    IF m1.from.row # m2.from.row \/ m1.from.col # m2.from.col THEN FALSE
    ELSE IF Len(m1.path) # Len(m2.path) THEN FALSE
    ELSE IF \E i \in 1 .. Len(m1.path) :
               \/ m1.path[i].row # m2.path[i].row
               \/ m1.path[i].col # m2.path[i].col
         THEN FALSE
    ELSE IF Len(m1.captures) # Len(m2.captures) THEN FALSE
    ELSE IF \E i \in 1 .. Len(m1.captures) :
               \/ m1.captures[i].row # m2.captures[i].row
               \/ m1.captures[i].col # m2.captures[i].col
         THEN FALSE
    ELSE TRUE

(***************************************************************************)
(* Math.random.  The search draws from a stream of random numbers, which   *)
(* is an input of the program: rng = [seed, k] is a stream and the number  *)
(* of values already drawn from it, and the k-th value of stream seed is   *)
(* RandomValue(rng) / RandDen, a fraction in [0, 1).                       *)
(***************************************************************************)
RandDen == 4

MaxSeed == 2

Seeds == 0 .. MaxSeed

RandomValue(rng) == (rng.seed + rng.seed * rng.k + rng.k * rng.k) % RandDen

Swap(array, i, j) == [array EXCEPT ![i] = array[j], ![j] = array[i]]

RECURSIVE shuffleLoop(_, _, _)

\* The loop of shuffle at index i (counted from 0, as in the source):
\* j = Math.floor(Math.random() * (i + 1)), then array[i] <-> array[j].
shuffleLoop(array, i, rng) ==
    IF ~(i > 0) THEN [array |-> array, rng |-> rng]
    ELSE LET j == (RandomValue(rng) * (i + 1)) \div RandDen
         IN shuffleLoop(Swap(array, i + 1, j + 1), i - 1,
                        [rng EXCEPT !.k = @ + 1])

\* Checkers.shuffle (Fisher-Yates)
shuffle(array, rng) == shuffleLoop(array, Len(array) - 1, rng)

\* Infinity of the source, above every score: |score| <= 64 * 50.
Infinity == 1000000

RECURSIVE minimax(_, _, _, _, _, _, _)
RECURSIVE maxLoop(_, _, _, _, _, _, _, _, _, _)
RECURSIVE minLoop(_, _, _, _, _, _, _, _, _, _)

\* The loop of the isMax branch passing its own isMax on to the recursive
\* call.
maxLoopNoFlip(h, b, depth, turnArg, perspective, rng, shuffledMoves, i, bestVal, bestMove) ==
    IF i > Len(shuffledMoves)
    THEN [h |-> h, rng |-> rng, score |-> bestVal, move |-> bestMove]
    ELSE
    LET move == shuffledMoves[i]
        nextTurn == IF turnArg = "red" THEN "black" ELSE "red"
        Child(newBoard) ==
            minimax(newBoard.h, newBoard.ref, depth - 1, TRUE, nextTurn,
                    perspective, rng)
        Keep(result) ==
            IF result.score > bestVal
            THEN maxLoop(result.h, b, depth, turnArg, perspective, result.rng,
                         shuffledMoves, i + 1, result.score, move)
            ELSE maxLoop(result.h, b, depth, turnArg, perspective, result.rng,
                         shuffledMoves, i + 1, bestVal, bestMove)
    IN Keep(Child(updateBoard(h, b, move)))

\* The loop of the isMax branch keeping, for the best move, the move the
\* recursive call returned.
maxLoopChildMove(h, b, depth, turnArg, perspective, rng, shuffledMoves, i, bestVal, bestMove) ==
    IF i > Len(shuffledMoves)
    THEN [h |-> h, rng |-> rng, score |-> bestVal, move |-> bestMove]
    ELSE
    LET move == shuffledMoves[i]
        nextTurn == IF turnArg = "red" THEN "black" ELSE "red"
        Child(newBoard) ==
            minimax(newBoard.h, newBoard.ref, depth - 1, FALSE, nextTurn,
                    perspective, rng)
        Keep(result) ==
            IF result.score > bestVal
            THEN maxLoop(result.h, b, depth, turnArg, perspective, result.rng,
                         shuffledMoves, i + 1, result.score, result.move)
            ELSE maxLoop(result.h, b, depth, turnArg, perspective, result.rng,
                         shuffledMoves, i + 1, bestVal, bestMove)
    IN Keep(Child(updateBoard(h, b, move)))

\* The for loop of the isMax branch of minimax over shuffledMoves[i..].
maxLoop(h, b, depth, turnArg, perspective, rng, shuffledMoves, i, bestVal, bestMove) ==
    IF i > Len(shuffledMoves)
    THEN [h |-> h, rng |-> rng, score |-> bestVal, move |-> bestMove]
    ELSE
    LET move == shuffledMoves[i]
        nextTurn == IF turnArg = "red" THEN "black" ELSE "red"
        Child(newBoard) ==
            minimax(newBoard.h, newBoard.ref, depth - 1, FALSE, nextTurn,
                    perspective, rng)
        Keep(result) ==
            IF result.score > bestVal
            THEN maxLoop(result.h, b, depth, turnArg, perspective, result.rng,
                         shuffledMoves, i + 1, result.score, move)
            ELSE maxLoop(result.h, b, depth, turnArg, perspective, result.rng,
                         shuffledMoves, i + 1, bestVal, bestMove)
    IN Keep(Child(updateBoard(h, b, move)))

\* The for loop of the minimising branch of minimax over shuffledMoves[i..].
minLoop(h, b, depth, turnArg, perspective, rng, shuffledMoves, i, bestVal, bestMove) ==
    IF i > Len(shuffledMoves)
    THEN [h |-> h, rng |-> rng, score |-> bestVal, move |-> bestMove]
    ELSE
    LET move == shuffledMoves[i]
        nextTurn == IF turnArg = "red" THEN "black" ELSE "red"
        Child(newBoard) ==
            minimax(newBoard.h, newBoard.ref, depth - 1, TRUE, nextTurn,
                    perspective, rng)
        Keep(result) ==
            IF result.score < bestVal
            THEN minLoop(result.h, b, depth, turnArg, perspective, result.rng,
                         shuffledMoves, i + 1, result.score, move)
            ELSE minLoop(result.h, b, depth, turnArg, perspective, result.rng,
                         shuffledMoves, i + 1, bestVal, bestMove)
    IN Keep(Child(updateBoard(h, b, move)))

\* Checkers.minimax
minimax(h, b, depth, isMax, turnArg, perspective, rng) ==
    LET Search(allowed) ==
            IF depth = 0 \/ Len(allowed.moves) = 0
            THEN [h |-> allowed.h, rng |-> rng,
                  score |-> evaluateBoard(allowed.h, b, perspective),
                  move |-> NULLMOVE]
            ELSE
            LET Scan(shuffled) ==
                    IF isMax
                    THEN maxLoop(allowed.h, b, depth, turnArg, perspective,
                                 shuffled.rng, shuffled.array, 1, -Infinity, NULLMOVE)
                    ELSE minLoop(allowed.h, b, depth, turnArg, perspective,
                                 shuffled.rng, shuffled.array, 1, Infinity, NULLMOVE)
            IN Scan(shuffle(allowed.moves, rng))
    IN Search(getAllowedMovesForBoard(h, b, turnArg))

(***************************************************************************)
(* The game session: this._board is the board at reference 1 of the store  *)
(* h of a call, this._turn is turnVal.                                     *)
(***************************************************************************)
THIS == 1

\* The board built by reset().
InitialBoard ==
    [row \in Rows |-> [col \in Rows |->
        IF (row + col) % 2 = 1
        THEN IF row < 3 THEN Piece("black", "man")
             ELSE IF row > 4 THEN Piece("red", "man")
             ELSE NULL
        ELSE NULL]]

\* Checkers.getPiece
getPiece(h, pos) ==
    IF pos.row < 0 \/ pos.row >= Size \/ pos.col < 0 \/ pos.col >= Size
    THEN NULL
    ELSE h[THIS][pos.row][pos.col]

\* A snapshot whose status names the side to move as the winner.
getCurrentStateOwnWinner(h, turnVal) ==
    LET State(allowed) ==
            LET allowedMoves == allowed.moves
                isGameOver == Len(allowedMoves) = 0
                boardStatus ==
                    IF isGameOver
                    THEN IF turnVal = "red" THEN "Game Over! Red wins!"
                                            ELSE "Game Over! Black wins!"
                    ELSE IF turnVal = "red" THEN "red's turn"
                                            ELSE "black's turn"
                Return(cl) ==
                    [h |-> cl.h,
                     state |-> [board |-> cl.h[cl.ref],
                                turn |-> turnVal,
                                allowedMoves |-> allowedMoves,
                                gameState |-> IF isGameOver THEN "gameOver"
                                              ELSE IF turnVal = "red"
                                                   THEN "redTurn"
                                                   ELSE "blackTurn",
                                boardStatus |-> boardStatus,
                                isGameOver |-> isGameOver]]
            IN Return(cloneBoard(allowed.h, THIS))
    IN State(getAllowedMovesForBoard(h, THIS, turnVal))

\* Checkers.getCurrentState
getCurrentState(h, turnVal) ==
    LET State(allowed) ==
            LET allowedMoves == allowed.moves
                isGameOver == Len(allowedMoves) = 0
                boardStatus ==
                    IF isGameOver
                    THEN IF turnVal = "red" THEN "Game Over! Black wins!"
                                            ELSE "Game Over! Red wins!"
                    ELSE IF turnVal = "red" THEN "red's turn"
                                            ELSE "black's turn"
                Return(cl) ==
                    [h |-> cl.h,
                     state |-> [board |-> cl.h[cl.ref],
                                turn |-> turnVal,
                                allowedMoves |-> allowedMoves,
                                gameState |-> IF isGameOver THEN "gameOver"
                                              ELSE IF turnVal = "red"
                                                   THEN "redTurn"
                                                   ELSE "blackTurn",
                                boardStatus |-> boardStatus,
                                isGameOver |-> isGameOver]]
            IN Return(cloneBoard(allowed.h, THIS))
    IN State(getAllowedMovesForBoard(h, THIS, turnVal))

\* EventEmitter.emit: the listeners of the event are called one after the
\* other, in the order of their registration, each with the same argument.
emit(ls, event, arg) ==
    [i \in 1 .. Len(ls) |-> [listener |-> ls[i], event |-> event, state |-> arg]]

\* Checkers._emitStateChange
emitStateChange(h, turnVal, ls) ==
    LET Emit(cur) == [h |-> cur.h, notes |-> emit(ls, "stateChange", cur.state)]
    IN Emit(getCurrentState(h, turnVal))

\* A promotion that crowns nothing.
promoteIfNeededNever(piece, row) == piece

\* A promotion that crowns red men only.
promoteIfNeededRedOnly(piece, row) ==
    IF piece.type = "king" THEN piece
    ELSE IF piece.color = "red" /\ row = 0 THEN [piece EXCEPT !.type = "king"]
    ELSE piece

\* Checkers._promoteIfNeeded
promoteIfNeeded(piece, row) ==
    IF piece.type = "king" THEN piece
    ELSE IF piece.color = "red" /\ row = 0 THEN [piece EXCEPT !.type = "king"]
    ELSE IF piece.color = "black" /\ row = Size - 1
         THEN [piece EXCEPT !.type = "king"]
    ELSE piece

\* Checkers.validateMove
validateMove(h, turnVal, m) ==
    LET Some(allowed) ==
            [h |-> allowed.h,
             valid |-> \E i \in 1 .. Len(allowed.moves) :
                           compareMoves(allowed.moves[i], m)]
    IN Some(getAllowedMovesForBoard(h, THIS, turnVal))

\* A move that notifies before it switches the turn.
moveEmitsEarly(h, turnVal, ls, m) ==
    LET Apply(v) ==
            IF ~v.valid
            THEN [h |-> v.h, turn |-> turnVal, notes |-> <<>>, ret |-> FALSE]
            ELSE
            LET piece == getPiece(v.h, m.from)
                finalPos == m.path[Len(m.path)]
                newTurn == IF turnVal = "red" THEN "black" ELSE "red"
                Return(e) ==
                    [h |-> e.h, turn |-> newTurn, notes |-> e.notes, ret |-> TRUE]
            IN Return(emitStateChange(
                   Write(Write(removeCaptured(v.h, THIS, m.captures, 1),
                               THIS, m.from, NULL),
                         THIS, finalPos, promoteIfNeeded(piece, finalPos.row)),
                   turnVal, ls))
    IN Apply(validateMove(h, turnVal, m))

\* Checkers.move
move(h, turnVal, ls, m) ==
    LET Apply(v) ==
            IF ~v.valid
            THEN [h |-> v.h, turn |-> turnVal, notes |-> <<>>, ret |-> FALSE]
            ELSE
            LET piece == getPiece(v.h, m.from)
                finalPos == m.path[Len(m.path)]
                newTurn == IF turnVal = "red" THEN "black" ELSE "red"
                Return(e) ==
                    [h |-> e.h, turn |-> newTurn, notes |-> e.notes, ret |-> TRUE]
            IN Return(emitStateChange(
                   Write(Write(removeCaptured(v.h, THIS, m.captures, 1),
                               THIS, m.from, NULL),
                         THIS, finalPos, promoteIfNeeded(piece, finalPos.row)),
                   newTurn, ls))
    IN Apply(validateMove(h, turnVal, m))

\* A reset that fills two rows a side.
resetTwoRows(h, ls) ==
    LET Return(e) == [h |-> e.h, turn |-> "red", notes |-> e.notes]
        twoRows == [row \in Rows |-> [col \in Rows |->
                       IF (row + col) % 2 = 1
                       THEN IF row < 2 THEN Piece("black", "man")
                            ELSE IF row > 5 THEN Piece("red", "man")
                            ELSE NULL
                       ELSE NULL]]
    IN Return(emitStateChange([h EXCEPT ![THIS] = twoRows], "red", ls))

\* Checkers.reset
reset(h, ls) ==
    LET Return(e) == [h |-> e.h, turn |-> "red", notes |-> e.notes]
    IN Return(emitStateChange([h EXCEPT ![THIS] = InitialBoard], "red", ls))

\* Checkers.bestMove
bestMove(h, turnVal, depth, rng) ==
    LET Search(cl) == minimax(cl.h, cl.ref, depth, TRUE, turnVal, turnVal, rng)
        Return(result) == [h |-> result.h, move |-> result.move]
    IN Return(Search(cloneBoard(h, THIS)))

(***************************************************************************)
(* Bounds of the model.                                                    *)
(***************************************************************************)
\* Calls of move() and reset() made on a session after it is set up.
MaxOps == 2

\* Listeners registered for stateChange.
MaxListeners == 2

\* Search depths 1 .. MaxDepth.
MaxDepth == 2

\* Pieces on the boards handed to the move generator and the board model.
MaxPieces == 3

\* Pieces on the boards handed to the search.
MaxSearchPieces == 2

SeqToSet(sq) == {sq[i] : i \in 1 .. Len(sq)}

\* The allowed moves of colour t on a board value.
Allowed(bd, t) == getAllowedMovesForBoard(<<bd>>, 1, t).moves

\* The simple steps of every piece of colour t, whether or not a capture is
\* available: what a caller ignoring the capture rule would try.
SimpleSteps(bd, t) ==
    UNION {SeqToSet(getSimpleMovesForPiece(<<bd>>, 1, Position(rc[1], rc[2]),
                                           bd[rc[1]][rc[2]])) :
             rc \in {x \in Rows \X Rows : bd[x[1]][x[2]].color = t}}

Reverse(sq) == [i \in 1 .. Len(sq) |-> sq[Len(sq) + 1 - i]]

\* Moves a caller may get wrong: a chain cut short, its captures left out
\* or reversed, a move of the side not to move, a step where a capture is
\* due, a move from off the board.
Tampered(bd, t) ==
    LET Of(legal, opp) ==
            {CheckersMove(m.from, SubSeq(m.path, 1, Len(m.path) - 1),
                          SubSeq(m.captures, 1, Len(m.captures) - 1)) :
                m \in {x \in legal : Len(x.path) > 1}}
            \cup {CheckersMove(m.from, m.path, <<>>) :
                    m \in {x \in legal : Len(x.captures) > 0}}
            \cup {CheckersMove(m.from, m.path, Reverse(m.captures)) :
                    m \in {x \in legal : Len(x.captures) > 0}}
            \cup (IF opp # <<>> THEN {opp[1]} ELSE {})
            \cup SimpleSteps(bd, t)
            \cup {CheckersMove(Position(-1, 0), <<Position(0, 1)>>, <<>>)}
    IN Of(SeqToSet(Allowed(bd, t)), Allowed(bd, Other(t)))

\* The moves handed to move(): every allowed one and the tampered ones.
Candidates(bd, t) == SeqToSet(Allowed(bd, t)) \cup Tampered(bd, t)

NoCall == [op |-> "none"]

\* The board holding the pieces of a list of <<row, col, colour, type>>.
BoardOf(pieces) ==
    [r \in Rows |-> [c \in Rows |->
        IF \E i \in 1 .. Len(pieces) : pieces[i][1] = r /\ pieces[i][2] = c
        THEN LET i == CHOOSE j \in 1 .. Len(pieces) :
                          pieces[j][1] = r /\ pieces[j][2] = c
             IN Piece(pieces[i][3], pieces[i][4])
        ELSE NULL]]

(***************************************************************************)
(* Spec: a game session.  board and turn are this._board and this._turn,   *)
(* listeners the callbacks registered for stateChange, notes the calls     *)
(* they received during the last operation, last the last call on the      *)
(* session with the state it was made in and what it returned, plies the   *)
(* number of move() and reset() calls made.  getCurrentState() and the     *)
(* static updateBoard, on the board of a snapshot, are called on a session *)
(* just set up; after a move() or a reset() the snapshot is the one the    *)
(* listeners were handed.  bestMove(depth) is run under SpecQuery.         *)
(***************************************************************************)
\* new Checkers(): this._board = [], then reset() runs with no listener
\* registered yet.
Constructed ==
    LET Session(r) == [board |-> r.h[THIS], turn |-> r.turn]
    IN Session(reset(<< <<>> >>, <<>>))

\* Recorded games: entry i of a game is the place, in the list of allowed
\* moves of ply i, of the move played.
Games ==
    << <<6, 4, 1, 2, 2, 2>>,
       <<6, 6, 4, 2, 4, 5, 1>>,
       <<3, 5, 1, 1, 5, 1, 1, 3>>,
       <<7, 5, 8, 8, 1, 1, 6, 2, 8>>,
       <<4, 2, 1, 2, 3, 3, 1, 2, 1, 1>>,
       <<3, 1, 4, 6, 4, 1, 1, 1, 9, 1, 10>>,
       <<3, 7, 5, 4, 1, 2, 5, 1, 5, 3, 1, 1, 2, 3, 1, 2, 1, 5, 1, 3, 1, 1>>,
       <<7, 3, 1, 1, 1, 1, 3, 4, 6, 1, 2, 5, 6, 6, 3, 1, 2, 1, 1, 1, 5, 2, 1,
         1, 1>>,
       <<3, 7, 5, 4, 1, 2, 5, 1, 5, 3, 1, 1, 2, 3, 1, 2, 1, 5, 1, 3, 1, 1, 1>>,
       <<7, 3, 1, 1, 1, 1, 3, 4, 6, 1, 2, 5, 6, 6, 3, 1, 2, 1, 1, 1, 5, 2, 1,
         1, 1, 1>> >>

RECURSIVE Replay(_, _, _, _)

\* The session after game.move() of the moves of a recorded game from ply
\* i on; a game stops at an entry beyond the list of allowed moves.
Replay(bd, t, game, i) ==
    LET Played(r) == Replay(r.h[THIS], r.turn, game, i + 1)
        Play(ms) == IF game[i] > Len(ms) THEN [board |-> bd, turn |-> t]
                    ELSE Played(move(<<bd>>, t, <<>>, ms[game[i]]))
    IN IF i > Len(game) THEN [board |-> bd, turn |-> t]
       ELSE Play(Allowed(bd, t))

\* A session is set up by construction and, possibly, the moves of a
\* recorded game.
Setups ==
    {[board |-> Constructed.board, turn |-> Constructed.turn,
      last |-> [op |-> "new"]]}
    \cup
    {[board |-> Replay(Constructed.board, Constructed.turn, Games[g], 1).board,
      turn |-> Replay(Constructed.board, Constructed.turn, Games[g], 1).turn,
      last |-> [op |-> "replay", game |-> g]] : g \in 1 .. Len(Games)}

Init ==
    /\ \E st \in Setups : board = st.board /\ turn = st.turn /\ last = st.last
    /\ listeners = <<>>
    /\ notes = <<>>
    /\ plies = 0
    /\ stack = <<>>
    /\ steps = 0

\* No call has been made yet on the session or on the arguments drawn.
Fresh == last.op \in {"none", "new", "replay"}

\* game.move(m)
Move(m) ==
    /\ plies < MaxOps
    /\ LET Called(r) ==
               /\ board' = r.h[THIS]
               /\ turn' = r.turn
               /\ notes' = r.notes
               /\ last' = [op |-> "move", move |-> m, ret |-> r.ret,
                           board |-> board, turn |-> turn]
       IN Called(move(<<board>>, turn, listeners, m))
    /\ plies' = plies + 1
    /\ UNCHANGED <<listeners, stack, steps>>

\* game.reset()
Reset ==
    /\ plies < MaxOps
    /\ LET Called(r) ==
               /\ board' = r.h[THIS]
               /\ turn' = r.turn
               /\ notes' = r.notes
       IN Called(reset(<<board>>, listeners))
    /\ last' = [op |-> "reset", board |-> board, turn |-> turn]
    /\ plies' = plies + 1
    /\ UNCHANGED <<listeners, stack, steps>>

\* game.on("stateChange", listener): EventEmitter appends the listener.
On ==
    /\ Len(listeners) < MaxListeners
    /\ listeners' = Append(listeners, Len(listeners) + 1)
    /\ notes' = <<>>
    /\ last' = [op |-> "on", board |-> board, turn |-> turn]
    /\ UNCHANGED <<board, turn, plies, stack, steps>>

\* The square and the piece a caller writes into a result it was handed.
PokeAt == Position(0, 0)

PokeWith == Piece("red", "king")

\* Checkers.getAllowedMovesForBoard(board, turn)
CallGetAllowedMoves ==
    /\ Fresh
    /\ LET Called(r) ==
               /\ board' = r.h[1]
               /\ last' = [op |-> "getAllowedMovesForBoard", board |-> board,
                           turn |-> turn, moves |-> r.moves]
       IN Called(getAllowedMovesForBoard(<<board>>, 1, turn))
    /\ UNCHANGED <<turn, listeners, notes, plies, stack, steps>>

\* Checkers.updateBoard(board, m), and then a write into its result.
CallUpdateBoard(m) ==
    /\ Fresh
    /\ LET Called(r) ==
               /\ board' = r.h[1]
               /\ last' = [op |-> "updateBoard", board |-> board, turn |-> turn,
                           move |-> m, out |-> r.h[r.ref],
                           poked |-> Write(r.h, r.ref, PokeAt, PokeWith)[1]]
       IN Called(updateBoard(<<board>>, 1, m))
    /\ UNCHANGED <<turn, listeners, notes, plies, stack, steps>>

\* Checkers.cloneBoard(board), and then a write into its result.
CallCloneBoard ==
    /\ Fresh
    /\ LET Called(r) ==
               /\ board' = r.h[1]
               /\ last' = [op |-> "cloneBoard", board |-> board, turn |-> turn,
                           out |-> r.h[r.ref],
                           poked |-> Write(r.h, r.ref, PokeAt, PokeWith)[1]]
       IN Called(cloneBoard(<<board>>, 1))
    /\ UNCHANGED <<turn, listeners, notes, plies, stack, steps>>

\* Checkers.evaluateBoard(board, "red") and Checkers.evaluateBoard(board,
\* "black")
CallEvaluateBoard ==
    /\ Fresh
    /\ last' = [op |-> "evaluateBoard", board |-> board, turn |-> turn,
                red |-> evaluateBoard(<<board>>, 1, "red"),
                black |-> evaluateBoard(<<board>>, 1, "black")]
    /\ UNCHANGED <<board, turn, listeners, notes, plies, stack, steps>>

\* game.bestMove(depth), Math.random() drawing the stream of a seed.
BestMove(depth, seed) ==
    /\ Fresh
    /\ LET Called(r) ==
               /\ board' = r.h[THIS]
               /\ last' = [op |-> "bestMove", board |-> board, turn |-> turn,
                           depth |-> depth, seed |-> seed, move |-> r.move]
       IN Called(bestMove(<<board>>, turn, depth, [seed |-> seed, k |-> 0]))
    /\ UNCHANGED <<turn, listeners, notes, plies, stack, steps>>

\* Checkers.updateBoard(game.getCurrentState().board, m) for a move m of the
\* snapshot's allowedMoves, and then a write into the result.
UpdateSnapshot(m) ==
    /\ Fresh
    /\ LET Called(snap, r) ==
               /\ board' = r.h[THIS]
               /\ last' = [op |-> "updateBoard", board |-> board, turn |-> turn,
                           move |-> m, out |-> r.h[r.ref],
                           poked |-> Write(r.h, r.ref, PokeAt, PokeWith)[snap]]
           Snapshot(cur) == Called(Len(cur.h), updateBoard(cur.h, Len(cur.h), m))
       IN Snapshot(getCurrentState(<<board>>, turn))
    /\ UNCHANGED <<turn, listeners, notes, plies, stack, steps>>

\* game.getCurrentState()
GetCurrentState ==
    /\ Fresh
    /\ LET Called(cur) ==
               /\ board' = cur.h[THIS]
               /\ last' = [op |-> "getCurrentState", board |-> board,
                           turn |-> turn, state |-> cur.state]
       IN Called(getCurrentState(<<board>>, turn))
    /\ UNCHANGED <<turn, listeners, notes, plies, stack, steps>>

Next ==
    \/ \E m \in Candidates(board, turn) : Move(m)
    \/ Reset
    \/ On
    \/ \E m \in SeqToSet(Allowed(board, turn)) : UpdateSnapshot(m)
    \/ GetCurrentState

Spec == Init /\ [][Next]_vars

(***************************************************************************)
(* SpecQuery: the calls that read a session just set up and leave it as it *)
(* is: getCurrentState(), bestMove(depth) and the static updateBoard on a  *)
(* snapshot's board.                                                       *)
(***************************************************************************)
NextQuery ==
    \/ GetCurrentState
    \/ \E depth \in 1 .. MaxDepth, seed \in Seeds : BestMove(depth, seed)
    \/ \E m \in SeqToSet(Allowed(board, turn)) : UpdateSnapshot(m)

SpecQuery == Init /\ [][NextQuery]_vars

(***************************************************************************)
(* SpecGen: the static functions of the board model and the move           *)
(* generator, called on any board.  board and turn are the caller's board  *)
(* and colour arguments; after a call board holds what the caller's board  *)
(* holds then, and last the call, its arguments and its result.  One call  *)
(* is made on each input drawn.                                            *)
(***************************************************************************)
\* The squares the enumerated boards are filled on: a diagonal on which a
\* man of either colour can jump twice, and a square beside it.
Region ==
    {Position(0, 5), Position(1, 4), Position(2, 3), Position(3, 2),
     Position(4, 1), Position(1, 2)}

Kinds == {Piece(c, t) : c \in Color, t \in PieceType}

\* Every board with at most n pieces, all on squares of the set region.
BoardsOn(region, n) ==
    {[r \in Rows |-> [c \in Rows |->
         IF Position(r, c) \in DOMAIN f THEN f[Position(r, c)] ELSE NULL]] :
       f \in UNION {[S -> Kinds] :
                      S \in {T \in SUBSET region : Cardinality(T) <= n}}}

\* Boards built by hand: a capture tree that branches after the first hop,
\* a king's chain around four men back to its origin, a man landing on its
\* promotion rank with an enemy beside it, pieces on light squares and in
\* the corners, the initial layout.
ScenarioBoards ==
    {BoardOf(<< <<5, 2, "red", "man">>, <<4, 3, "black", "man">>,
                <<2, 3, "black", "man">>, <<2, 5, "black", "king">> >>),
     BoardOf(<< <<5, 2, "red", "king">>, <<4, 3, "black", "man">>,
                <<2, 3, "black", "man">>, <<2, 1, "black", "man">>,
                <<4, 1, "black", "man">>, <<7, 6, "red", "man">>,
                <<0, 1, "black", "man">> >>),
     BoardOf(<< <<2, 1, "red", "man">>, <<1, 2, "black", "man">>,
                <<1, 4, "black", "man">>, <<6, 5, "red", "man">> >>),
     BoardOf(<< <<5, 6, "black", "man">>, <<6, 5, "red", "man">>,
                <<6, 3, "red", "king">>, <<1, 0, "black", "man">> >>),
     BoardOf(<< <<4, 4, "red", "man">>, <<3, 3, "black", "man">>,
                <<7, 0, "red", "king">>, <<0, 7, "black", "king">>,
                <<6, 1, "black", "man">> >>),
     InitialBoard}

GenBoards == BoardsOn(Region, MaxPieces) \cup ScenarioBoards

InitGen ==
    /\ board \in GenBoards
    /\ turn \in Color
    /\ listeners = <<>>
    /\ notes = <<>>
    /\ last = NoCall
    /\ plies = 0
    /\ stack = <<>>
    /\ steps = 0

NextGen ==
    \/ CallGetAllowedMoves
    \/ \E m \in SeqToSet(Allowed(board, turn)) : CallUpdateBoard(m)
    \/ CallCloneBoard
    \/ CallEvaluateBoard

SpecGen == InitGen /\ [][NextGen]_vars

(***************************************************************************)
(* SpecSearch: the search and the other static functions, called on any    *)
(* board.  board and turn are the board and the side to move, as in        *)
(* SpecGen.                                                                *)
(***************************************************************************)
SearchRegion ==
    {Position(1, 4), Position(2, 3), Position(3, 2), Position(4, 1)}

SearchBoards ==
    BoardsOn(SearchRegion, MaxSearchPieces) \cup (ScenarioBoards \ {InitialBoard})

InitSearch ==
    /\ board \in SearchBoards
    /\ turn \in Color
    /\ listeners = <<>>
    /\ notes = <<>>
    /\ last = NoCall
    /\ plies = 0
    /\ stack = <<>>
    /\ steps = 0

\* Checkers.minimax(board, depth, true, turn, turn), the call bestMove makes.
CallMinimax(depth, seed) ==
    /\ Fresh
    /\ LET Called(r) ==
               /\ board' = r.h[1]
               /\ last' = [op |-> "minimax", board |-> board, turn |-> turn,
                           depth |-> depth, seed |-> seed,
                           score |-> r.score, move |-> r.move]
       IN Called(minimax(<<board>>, 1, depth, TRUE, turn, turn,
                         [seed |-> seed, k |-> 0]))
    /\ UNCHANGED <<turn, listeners, notes, plies, stack, steps>>

NextSearch ==
    \/ \E depth \in 1 .. MaxDepth, seed \in Seeds : CallMinimax(depth, seed)
    \/ CallGetAllowedMoves
    \/ \E m \in SeqToSet(Allowed(board, turn)) : CallUpdateBoard(m)
    \/ CallCloneBoard
    \/ CallEvaluateBoard

SpecSearch == InitSearch /\ [][NextSearch]_vars

(***************************************************************************)
(* SpecStack: one search, call by call.  stack is the call stack of        *)
(* minimax, one frame for each call that has not returned yet, the root    *)
(* call first; last holds the arguments of the root call, the state of     *)
(* Math.random and, once the root call has returned, its result; steps     *)
(* counts the steps the search has taken.  Execution is synchronous and    *)
(* single-threaded: while a call is on the stack the search takes its next *)
(* step.                                                                   *)
(***************************************************************************)
StackBoards == ScenarioBoards

\* The frame of a call minimax(board, depth, isMax, turn, perspective) that
\* has computed its moves and not yet tested for the terminal condition.
Frame(bd, depth, isMax, t, perspective) ==
    [board |-> bd, depth |-> depth, isMax |-> isMax, turn |-> t,
     perspective |-> perspective, phase |-> "enter",
     moves |-> Allowed(bd, t), i |-> 0,
     bestVal |-> 0, bestMove |-> NULLMOVE]

\* A recursive call that passes its own depth on.
childFrameSameDepth(frame, m) ==
    LET Out(r) == r.h[r.ref]
    IN Frame(Out(updateBoard(<<frame.board>>, 1, m)), frame.depth,
             ~frame.isMax, IF frame.turn = "red" THEN "black" ELSE "red",
             frame.perspective)

\* The frame of the recursive call a frame makes for a move: the board
\* updateBoard returns, depth - 1, !isMax, the other colour.
childFrame(frame, m) ==
    LET Out(r) == r.h[r.ref]
    IN Frame(Out(updateBoard(<<frame.board>>, 1, m)), frame.depth - 1,
             ~frame.isMax, IF frame.turn = "red" THEN "black" ELSE "red",
             frame.perspective)

\* The stack after its top call has returned score to its caller, which
\* keeps it and the move it tried if it is better, and goes on to its next
\* move.
Returned(stk, score) ==
    LET caller == stk[Len(stk) - 1]
        better == IF caller.isMax THEN score > caller.bestVal
                                  ELSE score < caller.bestVal
    IN [i \in 1 .. (Len(stk) - 1) |->
          IF i < Len(stk) - 1 THEN stk[i]
          ELSE [caller EXCEPT
                  !.i = @ + 1,
                  !.bestVal = IF better THEN score ELSE @,
                  !.bestMove = IF better THEN caller.moves[caller.i] ELSE @]]

\* The top call returns {score, move}: to its caller, or as the result of
\* the search.
Return(score, m) ==
    IF Len(stack) = 1
    THEN /\ stack' = <<>>
         /\ last' = [last EXCEPT !.done = TRUE, !.score = score, !.move = m]
    ELSE /\ stack' = Returned(stack, score)
         /\ UNCHANGED last

InitStack ==
    /\ board \in StackBoards
    /\ turn \in Color
    /\ listeners = <<>>
    /\ notes = <<>>
    /\ last = NoCall
    /\ plies = 0
    /\ stack = <<>>
    /\ steps = 0

\* Checkers.minimax(board, depth, true, turn, turn) is called.
StartSearch(depth, seed) ==
    /\ Fresh
    /\ stack = <<>>
    /\ stack' = <<Frame(board, depth, TRUE, turn, turn)>>
    /\ last' = [op |-> "search", board |-> board, turn |-> turn,
                depth |-> depth, seed |-> seed,
                rng |-> [seed |-> seed, k |-> 0],
                done |-> FALSE, score |-> 0, move |-> NULLMOVE]
    /\ steps' = steps + 1
    /\ UNCHANGED <<board, turn, listeners, notes, plies>>

\* The top call finds depth === 0 or no move and returns the evaluation.
Leaf ==
    /\ stack # <<>>
    /\ stack[Len(stack)].phase = "enter"
    /\ stack[Len(stack)].depth = 0 \/ stack[Len(stack)].moves = <<>>
    /\ Return(evaluateBoard(<<stack[Len(stack)].board>>, 1,
                            stack[Len(stack)].perspective), NULLMOVE)
    /\ steps' = steps + 1
    /\ UNCHANGED <<board, turn, listeners, notes, plies>>

\* The top call shuffles a copy of its moves and enters its loop over it.
Expand ==
    /\ stack # <<>>
    /\ stack[Len(stack)].phase = "enter"
    /\ ~(stack[Len(stack)].depth = 0 \/ stack[Len(stack)].moves = <<>>)
    /\ \E sh \in {shuffle(stack[Len(stack)].moves, last.rng)} :
          /\ stack' = [stack EXCEPT ![Len(stack)] =
                         [@ EXCEPT !.phase = "loop",
                                   !.moves = sh.array,
                                   !.i = 1,
                                   !.bestVal = IF stack[Len(stack)].isMax
                                               THEN -Infinity ELSE Infinity]]
          /\ last' = [last EXCEPT !.rng = sh.rng]
    /\ steps' = steps + 1
    /\ UNCHANGED <<board, turn, listeners, notes, plies>>

\* The loop of the top call makes the recursive call for its next move.
Descend ==
    /\ stack # <<>>
    /\ stack[Len(stack)].phase = "loop"
    /\ stack[Len(stack)].i <= Len(stack[Len(stack)].moves)
    /\ \E child \in {childFrame(stack[Len(stack)],
                                stack[Len(stack)].moves[stack[Len(stack)].i])} :
          stack' = Append(stack, child)
    /\ steps' = steps + 1
    /\ UNCHANGED <<board, turn, listeners, notes, last, plies>>

\* The loop of the top call is over: it returns its best score and move.
LoopEnd ==
    /\ stack # <<>>
    /\ stack[Len(stack)].phase = "loop"
    /\ stack[Len(stack)].i > Len(stack[Len(stack)].moves)
    /\ Return(stack[Len(stack)].bestVal, stack[Len(stack)].bestMove)
    /\ steps' = steps + 1
    /\ UNCHANGED <<board, turn, listeners, notes, plies>>

NextStack ==
    \/ \E depth \in 1 .. MaxDepth, seed \in Seeds : StartSearch(depth, seed)
    \/ Leaf
    \/ Expand
    \/ Descend
    \/ LoopEnd

\* The search is running and takes a step.
Running == stack # <<>> /\ steps' = steps + 1

SpecStack == InitStack /\ [][NextStack]_vars /\ WF_steps(Running)

(***************************************************************************)
(* Properties.                                                             *)
(***************************************************************************)
\* The squares of a board value holding a piece of colour t.
Own(bd, t) ==
    {pos \in {Position(r, c) : r \in Rows, c \in Rows} :
        bd[pos.row][pos.col].color = t}

\* The directions of a piece, as pairs of row and column steps.
Dirs(piece) == SeqToSet(getDirections(piece))

Step(pos, d, n) == Position(pos.row + n * d[1], pos.col + n * d[2])

\* A jump is available to the piece on pos in direction d: an enemy piece
\* on the adjacent square and an empty square on the board behind it.
CanJump(bd, pos, piece, d) ==
    /\ InBounds(Step(pos, d, 2))
    /\ bd[Step(pos, d, 1).row][Step(pos, d, 1).col] # NULL
    /\ bd[Step(pos, d, 1).row][Step(pos, d, 1).col].color # piece.color
    /\ bd[Step(pos, d, 2).row][Step(pos, d, 2).col] = NULL

HasJump(bd, pos) == \E d \in Dirs(bd[pos.row][pos.col]) :
                       CanJump(bd, pos, bd[pos.row][pos.col], d)

JumpAvailable(bd, t) == \E pos \in Own(bd, t) : HasJump(bd, pos)

IsCapture(m) == Len(m.captures) > 0

\* C1: the list getAllowedMovesForBoard(board, turn) returns holds only
\* capture moves or only simple moves, and whenever a piece of the colour
\* to move has a jump available anywhere on the board it holds capture
\* moves only, whatever the other pieces of that colour could step to.
C1_MandatoryCapture ==
    last.op = "getAllowedMovesForBoard" =>
        /\ \/ \A m \in SeqToSet(last.moves) : IsCapture(m)
           \/ \A m \in SeqToSet(last.moves) : ~IsCapture(m)
        /\ JumpAvailable(last.board, last.turn) =>
               /\ last.moves # <<>>
               /\ \A m \in SeqToSet(last.moves) : IsCapture(m)

\* A call on a board where one piece of the colour to move has a jump and
\* another has none but could step to an empty square.
C1_Witness ==
    /\ last.op = "getAllowedMovesForBoard"
    /\ JumpAvailable(last.board, last.turn)
    /\ \E pos \in Own(last.board, last.turn) :
          /\ ~HasJump(last.board, pos)
          /\ getSimpleMovesForPiece(<<last.board>>, 1, pos,
                                    last.board[pos.row][pos.col]) # <<>>
    /\ last.moves # <<>>

\* The board after the piece on pos has made the hop: the captured piece
\* is taken off, the piece stands on the landing square, pos is empty.
HopBoard(bd, pos, piece, enemyPos, landingPos) ==
    [r \in Rows |-> [c \in Rows |->
        IF Position(r, c) = pos \/ Position(r, c) = enemyPos THEN NULL
        ELSE IF Position(r, c) = landingPos THEN piece
        ELSE bd[r][c]]]

RECURSIVE ChainsFrom(_, _, _, _)

\* The maximal jump chains that continue the chain m of the piece now on
\* pos: m itself when no jump is available from pos, else the chains that
\* continue m by one of the jumps available.
ChainsFrom(bd, pos, piece, m) ==
    LET ds == {d \in Dirs(piece) : CanJump(bd, pos, piece, d)}
    IN IF ds = {} THEN {m}
       ELSE UNION {ChainsFrom(HopBoard(bd, pos, piece, Step(pos, d, 1),
                                       Step(pos, d, 2)),
                              Step(pos, d, 2), piece,
                              CheckersMove(m.from,
                                           Append(m.path, Step(pos, d, 2)),
                                           Append(m.captures, Step(pos, d, 1)))) :
                     d \in ds}

\* Every maximal jump chain of the pieces of colour t.
MaximalChains(bd, t) ==
    UNION {ChainsFrom(bd, pos, bd[pos.row][pos.col], CheckersMove(pos, <<>>, <<>>)) :
             pos \in {x \in Own(bd, t) : HasJump(bd, x)}}

RECURSIVE AfterHops(_, _, _, _, _)

\* The board after the hops i.. of move m are made one by one by the piece
\* now on pos.
AfterHops(bd, pos, piece, m, i) ==
    IF i > Len(m.path) THEN bd
    ELSE AfterHops(HopBoard(bd, pos, piece, m.captures[i], m.path[i]),
                   m.path[i], piece, m, i + 1)

\* m1 is a move that m2 continues by at least one hop.
StrictPrefix(m1, m2) ==
    /\ m1.from = m2.from
    /\ Len(m1.path) < Len(m2.path)
    /\ SubSeq(m2.path, 1, Len(m1.path)) = m1.path
    /\ SubSeq(m2.captures, 1, Len(m1.captures)) = m1.captures

\* C2: every capture move getAllowedMovesForBoard returns is maximal: once
\* all its hops are made on the board, the moving piece has no further jump
\* from the final landing square; no returned move is a strict prefix of
\* another; every maximal branch of a capture tree is returned, as a move of
\* its own.
C2_MaximalChains ==
    last.op = "getAllowedMovesForBoard" =>
        LET caps == {m \in SeqToSet(last.moves) : IsCapture(m)}
        IN /\ \A m \in caps :
                 /\ Len(m.path) = Len(m.captures)
                 /\ ~HasJump(AfterHops(last.board, m.from,
                                       last.board[m.from.row][m.from.col], m, 1),
                             m.path[Len(m.path)])
           /\ \A m1, m2 \in caps : ~StrictPrefix(m1, m2)
           /\ caps = MaximalChains(last.board, last.turn)
           /\ Cardinality(SeqToSet(last.moves)) = Len(last.moves)

\* A call that returns two chains of more than one hop which part after a
\* first hop they share.
C2_Witness ==
    /\ last.op = "getAllowedMovesForBoard"
    /\ \E m1, m2 \in SeqToSet(last.moves) :
          /\ m1 # m2
          /\ m1.from = m2.from
          /\ Len(m1.path) > 1
          /\ Len(m2.path) > 1
          /\ m1.path[1] = m2.path[1]

\* C3: bestMove(depth), for a depth of 1 or more, returns null exactly when
\* the side to move has no allowed move, and otherwise returns a move that
\* is in the list of allowed moves of the session's board and turn.
C3_BestMoveAllowed ==
    last.op = "bestMove" =>
        /\ last.move = NULLMOVE <=> Allowed(last.board, last.turn) = <<>>
        /\ last.move # NULLMOVE =>
               last.move \in SeqToSet(Allowed(last.board, last.turn))

\* A search two plies deep that returned one of several allowed moves.
C3_Witness ==
    /\ last.op = "bestMove"
    /\ last.depth > 1
    /\ last.move # NULLMOVE
    /\ Len(Allowed(last.board, last.turn)) > 1

\* The piece a piece becomes on reaching a row: a red man on row 0 and a
\* black man on the last row become kings.
Crowned(piece, row) ==
    IF /\ piece.type = "man"
       /\ \/ piece.color = "red" /\ row = 0
          \/ piece.color = "black" /\ row = Size - 1
    THEN Piece(piece.color, "king")
    ELSE piece

Squares == {Position(r, c) : r \in Rows, c \in Rows}

At(bd, pos) == bd[pos.row][pos.col]

FinalOf(m) == m.path[Len(m.path)]

\* C4: move(m) with m equal to an allowed move returns true, and then the
\* final square of m.path holds the piece that stood on m.from, promoted
\* if required, m.from is empty unless it is the final square, every square
\* of m.captures is empty, every other square is as before, and the turn is
\* the other colour, switched once however many jumps m has.
C4_MoveEffect ==
    (last.op = "move" /\ last.move \in SeqToSet(Allowed(last.board, last.turn))) =>
        /\ last.ret = TRUE
        /\ At(board, FinalOf(last.move)) =
               Crowned(At(last.board, last.move.from), FinalOf(last.move).row)
        /\ FinalOf(last.move) # last.move.from => At(board, last.move.from) = NULL
        /\ \A c \in SeqToSet(last.move.captures) : At(board, c) = NULL
        /\ \A pos \in Squares \ ({last.move.from, FinalOf(last.move)}
                                  \cup SeqToSet(last.move.captures)) :
              At(board, pos) = At(last.board, pos)
        /\ turn = Other(last.turn)

\* An accepted move of two jumps or more.
C4_Witness ==
    /\ last.op = "move"
    /\ last.ret = TRUE
    /\ Len(last.move.captures) > 1
    /\ At(board, FinalOf(last.move)) # NULL

\* Two moves with the same from, the same path and the same captures,
\* element by element.
SameMove(a, m) == a.from = m.from /\ a.path = m.path /\ a.captures = m.captures

\* C5: move(m) with m equal to no allowed move returns false and changes
\* nothing: the board and the turn are as before and no stateChange
\* notification is delivered.
C5_RejectIllegal ==
    (/\ last.op = "move"
     /\ ~\E a \in SeqToSet(Allowed(last.board, last.turn)) : SameMove(a, last.move)) =>
        /\ last.ret = FALSE
        /\ board = last.board
        /\ turn = last.turn
        /\ notes = <<>>

\* A rejected move that names the squares of an allowed capture but not its
\* captures as the generator lists them, with a listener registered.
C5_Witness ==
    /\ last.op = "move"
    /\ last.ret = FALSE
    /\ listeners # <<>>
    /\ \E a \in SeqToSet(Allowed(last.board, last.turn)) :
          /\ a.from = last.move.from
          /\ a.path = last.move.path
          /\ a.captures # last.move.captures
    /\ board = last.board

\* The promotion rule for a piece that ends its move on square final and
\* is found there as result.
PromotionRule(piece, final, result) ==
    /\ (piece = Piece("red", "man") /\ final.row = 0) =>
           result = Piece("red", "king")
    /\ (piece = Piece("black", "man") /\ final.row = Size - 1) =>
           result = Piece("black", "king")
    /\ (piece = Piece("red", "man") /\ final.row # 0) => result = piece
    /\ (piece = Piece("black", "man") /\ final.row # Size - 1) => result = piece
    /\ piece.type = "king" => result = piece

\* C6: in the board updateBoard returns for an allowed move, and likewise
\* on the session's board after an accepted move(), a red man that ends
\* the move on row 0 and a black man that ends it on row 7 is a king, a man
\* that ends it on any other row is still a man, and a king is unchanged.
C6_Promotion ==
    /\ last.op = "updateBoard" =>
           PromotionRule(At(last.board, last.move.from), FinalOf(last.move),
                         At(last.out, FinalOf(last.move)))
    /\ (last.op = "move" /\ last.ret = TRUE) =>
           PromotionRule(At(last.board, last.move.from), FinalOf(last.move),
                         At(board, FinalOf(last.move)))

\* updateBoard called with a move that takes a man to its far row.
C6_Witness ==
    /\ last.op = "updateBoard"
    /\ At(last.board, last.move.from).type = "man"
    /\ At(last.out, FinalOf(last.move)).type = "king"
    /\ At(last.out, FinalOf(last.move)).color = At(last.board, last.move.from).color

\* The standard opening layout: black men on the dark squares of rows 0 to
\* 2, red men on the dark squares of rows 5 to 7, nothing elsewhere.
OpeningPiece(pos) ==
    IF (pos.row + pos.col) % 2 = 1 /\ pos.row <= 2 THEN Piece("black", "man")
    ELSE IF (pos.row + pos.col) % 2 = 1 /\ pos.row >= 5 THEN Piece("red", "man")
    ELSE NULL

\* C7: after construction and after every reset() the board holds the
\* standard layout, 12 black men on the dark squares of rows 0-2 and 12 red
\* men on the dark squares of rows 5-7 with rows 3-4 and every light square
\* empty, and the turn is red.
C7_InitialLayout ==
    last.op \in {"new", "reset"} =>
        /\ \A pos \in Squares : At(board, pos) = OpeningPiece(pos)
        /\ Cardinality({pos \in Squares : At(board, pos) = Piece("black", "man")}) = 12
        /\ Cardinality({pos \in Squares : At(board, pos) = Piece("red", "man")}) = 12
        /\ turn = "red"

\* reset() called when it is black's turn on a board that has left the
\* opening layout.
C7_Witness ==
    /\ last.op = "reset"
    /\ last.turn = "black"
    /\ \E pos \in Squares : At(last.board, pos) # OpeningPiece(pos)
    /\ turn = "red"

\* C8: every accepted move() delivers exactly one stateChange notification
\* to each registered listener, in the order of registration, made after
\* the board is changed and the turn switched: its snapshot holds the board
\* after the move, the switched turn and the allowed moves of the side now
\* to move.
C8_StateChange ==
    (last.op = "move" /\ last.ret = TRUE) =>
        /\ Len(notes) = Len(listeners)
        /\ \A i \in 1 .. Len(notes) :
              /\ notes[i].listener = listeners[i]
              /\ notes[i].event = "stateChange"
              /\ notes[i].state.board = board
              /\ notes[i].state.turn = turn
              /\ notes[i].state.turn = Other(last.turn)
              /\ notes[i].state.allowedMoves = Allowed(board, turn)

\* An accepted move on a session with two listeners, each of them called
\* with a board that is not the board before the move.
C8_Witness ==
    /\ last.op = "move"
    /\ last.ret = TRUE
    /\ Len(listeners) > 1
    /\ Len(notes) > 1
    /\ notes[1].state.board # last.board
    /\ notes[2].state.allowedMoves # <<>>

\* The board value updateBoard returns for move m on board value bd.
After(bd, m) ==
    LET Out(r) == r.h[r.ref] IN Out(updateBoard(<<bd>>, 1, m))

Max(S) == CHOOSE x \in S : \A y \in S : y <= x

Min(S) == CHOOSE x \in S : \A y \in S : x <= y

RECURSIVE PlainValue(_, _, _, _)

\* The depth-limited minimax value of a node with no pruning: a leaf (depth
\* 0 or no allowed move) is worth evaluateBoard from the perspective; a node
\* where the perspective is to move is worth the greatest of its children,
\* any other node the least.
PlainValue(bd, depth, t, perspective) ==
    IF depth = 0 \/ Allowed(bd, t) = <<>>
    THEN evaluateBoard(<<bd>>, 1, perspective)
    ELSE LET vals == {PlainValue(After(bd, m), depth - 1, Other(t), perspective) :
                        m \in SeqToSet(Allowed(bd, t))}
         IN IF t = perspective THEN Max(vals) ELSE Min(vals)

\* The value of the child a root move leads to.
ChildValue(bd, depth, t, m) == PlainValue(After(bd, m), depth - 1, Other(t), t)

\* C9: the score minimax returns for a call as bestMove makes it (isMax
\* true, turn the perspective) is the plain depth-limited minimax value,
\* leaves scored by evaluateBoard from the perspective, maximised where the
\* perspective is to move and minimised elsewhere; it is the same whatever
\* the shuffle draws, and the move returned is the first move of the
\* shuffled order whose child has that value.
C9_MinimaxValue ==
    last.op = "minimax" =>
        LET order == shuffle(Allowed(last.board, last.turn),
                             [seed |-> last.seed, k |-> 0]).array
        IN /\ last.score = PlainValue(last.board, last.depth, last.turn, last.turn)
           /\ order = <<>> => last.move = NULLMOVE
           /\ order # <<>> =>
                  \E i \in 1 .. Len(order) :
                      /\ last.move = order[i]
                      /\ ChildValue(last.board, last.depth, last.turn, order[i])
                             = last.score
                      /\ \A j \in 1 .. (i - 1) :
                            ChildValue(last.board, last.depth, last.turn, order[j])
                                # last.score

\* A search two plies deep where several root moves have the best value and
\* the shuffle, not the generator's order, decided which one is returned.
C9_Witness ==
    /\ last.op = "minimax"
    /\ last.depth > 1
    /\ last.move # NULLMOVE
    /\ LET ms == Allowed(last.board, last.turn)
           best == {i \in 1 .. Len(ms) :
                      ChildValue(last.board, last.depth, last.turn, ms[i])
                          = last.score}
       IN /\ Cardinality(best) > 1
          /\ Cardinality(best) < Len(ms)
          /\ last.move # ms[Min(best)]
          /\ last.score = PlainValue(last.board, last.depth, last.turn, last.turn)

\* C10: cloneBoard, updateBoard, getAllowedMovesForBoard and minimax leave
\* the board they are given as it was, and the boards cloneBoard and
\* updateBoard return are new ones: a later write into a result does not
\* show in the input.
C10_InputsUntouched ==
    /\ last.op \in {"cloneBoard", "updateBoard", "getAllowedMovesForBoard",
                    "minimax"} =>
           board = last.board
    /\ last.op \in {"cloneBoard", "updateBoard"} =>
           /\ last.poked = last.board
           /\ At(last.board, PokeAt) # PokeWith
    /\ last.op = "cloneBoard" => last.out = last.board

\* updateBoard called with a capture: the result differs from the input,
\* which is as it was, also after the write into the result.
C10_Witness ==
    /\ last.op = "updateBoard"
    /\ IsCapture(last.move)
    /\ last.out # last.board
    /\ board = last.board
    /\ last.poked = last.board

\* Square i of the way of a move: its origin for i = 0, then its path.
WayOf(m, i) == IF i = 0 THEN m.from ELSE m.path[i]

\* The rows a step of a move covers: two for a jump, one for a simple step.
Stride(m) == IF IsCapture(m) THEN 2 ELSE 1

\* C11: every step of every move generated for a red man goes to a smaller
\* row, one row up for a simple step and two for each jump, every step of
\* a move generated for a black man goes to a larger row in the same way,
\* and a king's steps go one way or the other; this holds at every hop of
\* a chain, so a man that reaches its promotion rank in a chain jumps no
\* further back in that chain.
C11_Directions ==
    last.op = "getAllowedMovesForBoard" =>
        \A m \in SeqToSet(last.moves) :
            \A i \in 1 .. Len(m.path) :
                /\ At(last.board, m.from).color = last.turn
                /\ At(last.board, m.from) = Piece("red", "man") =>
                       WayOf(m, i).row = WayOf(m, i - 1).row - Stride(m)
                /\ At(last.board, m.from) = Piece("black", "man") =>
                       WayOf(m, i).row = WayOf(m, i - 1).row + Stride(m)
                /\ At(last.board, m.from).type = "king" =>
                       \/ WayOf(m, i).row = WayOf(m, i - 1).row - Stride(m)
                       \/ WayOf(m, i).row = WayOf(m, i - 1).row + Stride(m)

\* A man's capture that ends on its promotion rank, where a king standing
\* on the final square of the board after the hops would have a jump.
C11_Witness ==
    /\ last.op = "getAllowedMovesForBoard"
    /\ \E m \in SeqToSet(last.moves) :
          /\ IsCapture(m)
          /\ At(last.board, m.from).type = "man"
          /\ FinalOf(m).row \in {0, Size - 1}
          /\ \E d \in {<<-1, -1>>, <<-1, 1>>, <<1, -1>>, <<1, 1>>} :
                CanJump(AfterHops(last.board, m.from, At(last.board, m.from), m, 1),
                        FinalOf(m), At(last.board, m.from), d)

\* The number of pieces of a kind on a board value.
Count(bd, piece) == Cardinality({pos \in Squares : At(bd, pos) = piece})

\* The material of colour c: 10 for each man and 50 for each king.
Material(bd, c) ==
    10 * Count(bd, Piece(c, "man")) + 50 * Count(bd, Piece(c, "king"))

\* C12: for every board evaluateBoard(board, red) is the opposite of
\* evaluateBoard(board, black), each being the sum of +10 for a man and
\* +50 for a king of the perspective colour and -10 and -50 for the others.
C12_EvaluationSymmetry ==
    last.op = "evaluateBoard" =>
        /\ last.red = -last.black
        /\ last.red = Material(last.board, "red") - Material(last.board, "black")
        /\ last.black = Material(last.board, "black") - Material(last.board, "red")

\* An evaluation of a board with a man of one colour and a king of the
\* other, and a score that is not 0.
C12_Witness ==
    /\ last.op = "evaluateBoard"
    /\ \E c \in Color :
          /\ Count(last.board, Piece(c, "man")) > 0
          /\ Count(last.board, Piece(Other(c), "king")) > 0
    /\ last.red # 0
    /\ last.red = -last.black

\* The snapshots getCurrentState() has made of the session as it is now:
\* the one a call returned, and those handed to the listeners by the last
\* move() or reset().
Snapshots ==
    (IF last.op = "getCurrentState" THEN {last.state} ELSE {})
    \cup {notes[i].state : i \in 1 .. Len(notes)}

\* C13: in every session state a snapshot from getCurrentState() has
\* isGameOver true and gameState gameOver exactly when the side to move has
\* no allowed move, and then its status names the other colour as the
\* winner; otherwise its gameState is redTurn on red's turn and blackTurn on
\* black's; its allowedMoves are the allowed moves of the current board and
\* turn.
C13_GameOverReport ==
    \A snap \in Snapshots :
        /\ snap.isGameOver = TRUE <=> Allowed(board, turn) = <<>>
        /\ snap.gameState = "gameOver" <=> Allowed(board, turn) = <<>>
        /\ Allowed(board, turn) = <<>> =>
               snap.boardStatus = IF turn = "red" THEN "Game Over! Black wins!"
                                                  ELSE "Game Over! Red wins!"
        /\ Allowed(board, turn) # <<>> =>
               snap.gameState = IF turn = "red" THEN "redTurn" ELSE "blackTurn"
        /\ snap.allowedMoves = Allowed(board, turn)
        /\ snap.turn = turn
        /\ snap.board = board

\* A listener is handed the snapshot of a game a move has just ended.
C13_Witness ==
    /\ last.op = "move"
    /\ last.ret = TRUE
    /\ notes # <<>>
    /\ \E snap \in Snapshots : snap.isGameOver = TRUE /\ snap.gameState = "gameOver"
    /\ Allowed(last.board, last.turn) # <<>>

\* The first n hops of a move.
Prefix(m, n) ==
    CheckersMove(m.from, SubSeq(m.path, 1, n), SubSeq(m.captures, 1, n))

\* The board as simulated after the first n hops of move m on bd.
Simulated(bd, m, n) ==
    AfterHops(bd, m.from, At(bd, m.from), Prefix(m, n), 1)

\* The board of the example: a red man on (3,2) and a black man on (2,3).
ExampleBoard ==
    BoardOf(<< <<3, 2, "red", "man">>, <<2, 3, "black", "man">> >>)

\* C14: a hop from square p in direction d is taken in capture generation
\* exactly when p+2d is on the board, p+d holds a piece of the opposite
\* colour and p+2d is empty on the board as simulated so far in the chain,
\* with the origin vacated and the pieces captured so far removed; on the
\* board with only a red man on (3,2) and a black man on (2,3) the allowed
\* moves of red are the single move from (3,2) with path [(1,4)] and
\* captures [(2,3)].
C14_JumpValidity ==
    last.op = "getAllowedMovesForBoard" =>
        LET caps == {m \in SeqToSet(last.moves) : IsCapture(m)}
        IN /\ \A m \in caps : \A i \in 1 .. Len(m.path) :
                 \E d \in Dirs(At(last.board, m.from)) :
                     /\ m.captures[i] = Step(WayOf(m, i - 1), d, 1)
                     /\ m.path[i] = Step(WayOf(m, i - 1), d, 2)
                     /\ CanJump(Simulated(last.board, m, i - 1), WayOf(m, i - 1),
                                At(last.board, m.from), d)
           /\ \A pos \in Own(last.board, last.turn) :
                 \A d \in Dirs(At(last.board, pos)) :
                     CanJump(last.board, pos, At(last.board, pos), d) =>
                         \E m \in caps : m.from = pos /\ m.path[1] = Step(pos, d, 2)
           /\ \A m \in caps : \A n \in 1 .. Len(m.path) :
                 \A d \in Dirs(At(last.board, m.from)) :
                     CanJump(Simulated(last.board, m, n), m.path[n],
                             At(last.board, m.from), d) =>
                         \E m2 \in caps :
                             /\ Len(m2.path) > n
                             /\ Prefix(m2, n) = Prefix(m, n)
                             /\ m2.path[n + 1] = Step(m.path[n], d, 2)
           /\ (last.board = ExampleBoard /\ last.turn = "red") =>
                  last.moves = <<CheckersMove(Position(3, 2), <<Position(1, 4)>>,
                                              <<Position(2, 3)>>)>>

\* A chain that lands on the square it started from.
C14_Witness ==
    /\ last.op = "getAllowedMovesForBoard"
    /\ \E m \in SeqToSet(last.moves) :
          /\ Len(m.path) > 2
          /\ \E i \in 1 .. Len(m.path) : m.path[i] = m.from

Abs(n) == IF n < 0 THEN -n ELSE n

\* Square q is n rows and n columns away from square p.
DiagonalApart(p, q, n) == Abs(q.row - p.row) = n /\ Abs(q.col - p.col) = n

\* C15: every move getAllowedMovesForBoard returns has its from and all
\* its path entries on the 8x8 board and is either a simple step, with no
\* captures and a path of one square one row and one column from from, or
\* a jump, with as many captures as path entries and at least one, each
\* path entry two rows and two columns from the position before it and
\* each capture the square midway between the start and the landing of its
\* hop.
C15_MoveShape ==
    last.op = "getAllowedMovesForBoard" =>
        \A m \in SeqToSet(last.moves) :
            /\ m.from.row \in 0 .. 7 /\ m.from.col \in 0 .. 7
            /\ \A i \in 1 .. Len(m.path) :
                  m.path[i].row \in 0 .. 7 /\ m.path[i].col \in 0 .. 7
            /\ \/ /\ m.captures = <<>>
                  /\ Len(m.path) = 1
                  /\ DiagonalApart(m.from, m.path[1], 1)
               \/ /\ Len(m.captures) >= 1
                  /\ Len(m.path) = Len(m.captures)
                  /\ \A i \in 1 .. Len(m.path) :
                        /\ DiagonalApart(WayOf(m, i - 1), m.path[i], 2)
                        /\ 2 * m.captures[i].row
                               = WayOf(m, i - 1).row + m.path[i].row
                        /\ 2 * m.captures[i].col
                               = WayOf(m, i - 1).col + m.path[i].col

\* A list of simple steps from a square on the edge of the board, returned
\* for a piece that has a neighbour square off the board.
C15_Witness ==
    /\ last.op = "getAllowedMovesForBoard"
    /\ \E m \in SeqToSet(last.moves) :
          /\ ~IsCapture(m)
          /\ m.from.col \in {0, 7}
          /\ Len(m.path) = 1
          /\ DiagonalApart(m.from, m.path[1], 1)

\* The pieces on a board value that are not of colour c.
Opponents(bd, c) ==
    {pos \in Squares : At(bd, pos) # NULL /\ At(bd, pos).color # c}

\* Frame n of the stack is n - 1 calls below the root call and has that
\* much less depth left.
NestingBounded ==
    /\ stack # <<>> => Len(stack) - 1 <= last.depth
    /\ \A n \in 1 .. Len(stack) :
          /\ stack[n].depth = last.depth - (n - 1)
          /\ stack[n].depth >= 0

\* In every chain generated for a call on the stack each hop takes one
\* opposing piece off the simulated board, so a chain has no more hops
\* than the board has opposing pieces.
ChainsBounded ==
    \A n \in 1 .. Len(stack) : \A m \in SeqToSet(stack[n].moves) :
        /\ \A k \in 0 .. Len(m.captures) :
              Cardinality(Opponents(Simulated(stack[n].board, m, k), stack[n].turn))
                  = Cardinality(Opponents(stack[n].board, stack[n].turn)) - k
        /\ Len(m.captures) <= Cardinality(Opponents(stack[n].board, stack[n].turn))

\* A search that is running can take a step: its top call is at the
\* terminal test, with or without a move to try, or in its loop, with or
\* without a move left.
CanStep ==
    stack # <<>> =>
        LET top == stack[Len(stack)]
        IN \/ top.phase = "enter" /\ (top.depth = 0 \/ top.moves = <<>>)
           \/ top.phase = "enter" /\ top.depth > 0 /\ top.moves # <<>>
           \/ top.phase = "loop" /\ top.i <= Len(top.moves)
           \/ top.phase = "loop" /\ top.i > Len(top.moves)

\* C16: for every board, turn and depth of 1 or more the search ends; the
\* calls of minimax are never nested deeper than depth below the root call,
\* each recursive call having depth - 1 and a call with depth 0 or without
\* a legal move making none; every capture chain searched in it ends,
\* since each hop takes one opposing piece off the simulated board.
C16_SearchTerminates ==
    /\ [](NestingBounded /\ ChainsBounded /\ CanStep)
    /\ (stack # <<>>) ~> (stack = <<>> /\ last.op = "search" /\ last.done = TRUE)

\* A search three calls deep that has returned a move.
C16_Witness ==
    /\ last.op = "search"
    /\ last.done = TRUE
    /\ last.depth > 1
    /\ stack = <<>>
    /\ last.move # NULLMOVE
    /\ IsCapture(last.move)

\* The result of the search made call by call is the result of minimax.
StackAgrees ==
    (last.op = "search" /\ last.done = TRUE) =>
        LET Same(r) == r.score = last.score /\ r.move = last.move
        IN Same(minimax(<<last.board>>, 1, last.depth, TRUE, last.turn, last.turn,
                        [seed |-> last.seed, k |-> 0]))

\* C17: in every session state, for every allowed move m, the board of the
\* session after move(m) equals, square for square in colour and type, the
\* board updateBoard returns for the board before the move and m; this
\* includes promotions and king chains that land on their own origin.
C17_MoveAgreesWithUpdateBoard ==
    (last.op = "move" /\ last.move \in SeqToSet(Allowed(last.board, last.turn))) =>
        /\ last.ret = TRUE
        /\ \A pos \in Squares :
              /\ At(board, pos).color = At(After(last.board, last.move), pos).color
              /\ At(board, pos).type = At(After(last.board, last.move), pos).type

\* An accepted chain of a king that lands on the square it started from.
C17_Witness ==
    /\ last.op = "move"
    /\ last.ret = TRUE
    /\ At(last.board, last.move.from).type = "king"
    /\ Len(last.move.captures) > 2
    /\ FinalOf(last.move) = last.move.from
    /\ At(board, last.move.from) = At(last.board, last.move.from)

\* An accepted move that crowns a man.
C17_Promotes ==
    /\ last.op = "move"
    /\ last.ret = TRUE
    /\ At(last.board, last.move.from).type = "man"
    /\ At(After(last.board, last.move), FinalOf(last.move)).type = "king"

\* C18: in every state of a session, reached from the opening layout by
\* accepted moves, every piece stands on a dark square (row + col odd), no
\* red man stands on row 0 and no black man on row 7: a piece on its
\* promotion rank is a king.
C18_ReachableBoards ==
    \A pos \in Squares :
        At(board, pos) # NULL =>
            /\ (pos.row + pos.col) % 2 = 1
            /\ At(board, pos) # Piece("red", "man") \/ pos.row # 0
            /\ At(board, pos) # Piece("black", "man") \/ pos.row # Size - 1

\* A man has just moved onto its promotion rank, in a game under way, and
\* stands there as a king.
C18_Witness ==
    /\ last.op = "move"
    /\ last.ret = TRUE
    /\ At(last.board, last.move.from).type = "man"
    /\ FinalOf(last.move).row \in {0, Size - 1}
    /\ At(board, FinalOf(last.move)).type = "king"
    /\ last.board # InitialBoard

\* The number of pieces of colour c on a board value.
PieceCount(bd, c) ==
    Cardinality({pos \in Squares : At(bd, pos) # NULL /\ At(bd, pos).color = c})

\* The captures of move m, generated for colour t on board value bd, are
\* pairwise distinct squares that each hold a piece of the other colour.
CapturesDistinctOpposing(bd, t, m) ==
    /\ \A i, j \in 1 .. Len(m.captures) : i # j => m.captures[i] # m.captures[j]
    /\ \A i \in 1 .. Len(m.captures) :
          /\ At(bd, m.captures[i]) # NULL
          /\ At(bd, m.captures[i]).color = Other(t)

\* C19: the squares in the captures of every generated move are pairwise
\* distinct and each holds an opposing piece on the board the move was
\* generated for; every accepted move() leaves the number of the mover's
\* pieces as it was and lowers the number of the opponent's by the length
\* of its captures; so no move raises either number, and neither ever
\* exceeds 12.
C19_PieceConservation ==
    /\ \A m \in SeqToSet(Allowed(board, turn)) :
          CapturesDistinctOpposing(board, turn, m)
    /\ (last.op = "move" /\ last.ret = TRUE) =>
          /\ CapturesDistinctOpposing(last.board, last.turn, last.move)
          /\ PieceCount(board, last.turn) = PieceCount(last.board, last.turn)
          /\ PieceCount(board, Other(last.turn)) =
                 PieceCount(last.board, Other(last.turn)) - Len(last.move.captures)
          /\ \A c \in Color : PieceCount(board, c) <= PieceCount(last.board, c)
    /\ \A c \in Color : PieceCount(board, c) <= 12

\* An accepted chain that takes the opponent's last pieces, two or more.
C19_Witness ==
    /\ last.op = "move"
    /\ last.ret = TRUE
    /\ Len(last.move.captures) >= 2
    /\ PieceCount(last.board, turn) = Len(last.move.captures)
    /\ PieceCount(board, turn) = 0
    /\ PieceCount(board, last.turn) > 0

=============================================================================
